---------------------------- MODULE Spec2Model ----------------------------
(***************************************************************************)
(* A model of mvn.py: bin_list(url) fetches an Apache directory listing,   *)
(* extracts the version tokens with a regular expression, sorts them in    *)
(* descending string order and formats the two download URLs of the first; *)
(* run as a program, it prints that list.                                  *)
(*                                                                         *)
(* A str is a sequence of code points and a bytes object a sequence of     *)
(* numbers in 0..255, so that decoding, string comparison and formatting   *)
(* are computed as Python computes them.                                   *)
(***************************************************************************)
EXTENDS Integers, Sequences, FiniteSets

(***************************************************************************)
(* Bounds of the inputs.                                                   *)
(***************************************************************************)
\* a raw response body is the concatenation of at most MaxParts fragments
MaxParts == 3
\* a listing response holds at most MaxRows directory rows
MaxRows == 2

(***************************************************************************)
(* Characters the code names.                                              *)
(***************************************************************************)
\* '/', the character url.strip('/') removes and the f-strings insert
SLASH == 47
\* '>', the anchor of the pattern
GT == 62
\* '.' and '-', the separators of the pattern
DOT == 46
DASH == 45

(***************************************************************************)
(* url.strip('/'): every leading and every trailing '/' is removed.        *)
(***************************************************************************)
\* the number of leading '/' of s
LeadingSlashes(s) ==
    LET skip[n \in 0..Len(s)] ==
            IF n < Len(s) /\ s[n + 1] = SLASH THEN skip[n + 1] ELSE n
    IN  skip[0]

\* the length of s without its trailing '/'
TrailingKept(s) ==
    LET keep[n \in 0..Len(s)] ==
            IF n > 0 /\ s[n] = SLASH THEN keep[n - 1] ELSE n
    IN  keep[Len(s)]

LStrip(s) == SubSeq(s, LeadingSlashes(s) + 1, Len(s))

RStrip(s) == SubSeq(s, 1, TrailingKept(s))

\* a plausible slip: only one trailing '/' is dropped
StripOneTrailing(s) ==
    IF s # <<>> /\ s[Len(s)] = SLASH THEN SubSeq(s, 1, Len(s) - 1) ELSE s

Strip(s) == RStrip(LStrip(s))

(***************************************************************************)
(* bytes.decode('utf-8'), strict.  CharLen(b, i) is the number of bytes of *)
(* the well-formed sequence starting at b[i], 0 when there is none;        *)
(* CodePoint(b, i, n) is the code point it encodes.                        *)
(***************************************************************************)
IsCont(b, i) == i <= Len(b) /\ b[i] \in 128..191

CharLen(b, i) ==
    LET c == b[i] IN
    IF c < 128 THEN 1
    ELSE IF c \in 194..223 THEN (IF IsCont(b, i + 1) THEN 2 ELSE 0)
    ELSE IF c \in 224..239 THEN
        (IF /\ IsCont(b, i + 1)
            /\ IsCont(b, i + 2)
            /\ (c = 224 => b[i + 1] >= 160)
            /\ (c = 237 => b[i + 1] <= 159)
         THEN 3 ELSE 0)
    ELSE IF c \in 240..244 THEN
        (IF /\ IsCont(b, i + 1)
            /\ IsCont(b, i + 2)
            /\ IsCont(b, i + 3)
            /\ (c = 240 => b[i + 1] >= 144)
            /\ (c = 244 => b[i + 1] <= 143)
         THEN 4 ELSE 0)
    ELSE 0

CodePoint(b, i, n) ==
    CASE n = 1 -> b[i]
      [] n = 2 -> (b[i] - 192) * 64 + (b[i + 1] - 128)
      [] n = 3 -> (b[i] - 224) * 4096 + (b[i + 1] - 128) * 64 + (b[i + 2] - 128)
      [] n = 4 -> (b[i] - 240) * 262144 + (b[i + 1] - 128) * 4096
                    + (b[i + 2] - 128) * 64 + (b[i + 3] - 128)

\* the first index from i on that holds no ASCII byte, Len(b) + 1 without one
AsciiEnd(b, i) ==
    IF \A j \in i..Len(b) : b[j] < 128 THEN Len(b) + 1
    ELSE CHOOSE j \in i..Len(b) : b[j] >= 128 /\ \A k \in i..(j - 1) : b[k] < 128

\* every byte from index i on belongs to a well-formed sequence
WellFormed(b) ==
    LET wf[i \in 1..(Len(b) + 1)] ==
            \/ AsciiEnd(b, i) > Len(b)
            \/ /\ CharLen(b, AsciiEnd(b, i)) > 0
               /\ wf[AsciiEnd(b, i) + CharLen(b, AsciiEnd(b, i))]
    IN  wf[1]

\* the text of a well-formed b: a run of ASCII bytes decodes to itself, a
\* longer sequence to its code point
Text(b) ==
    LET txt[i \in 1..(Len(b) + 1)] ==
            LET j == AsciiEnd(b, i) IN
            IF j > Len(b) THEN SubSeq(b, i, Len(b))
            ELSE SubSeq(b, i, j - 1) \o <<CodePoint(b, j, CharLen(b, j))>>
                   \o txt[j + CharLen(b, j)]
    IN  txt[1]

\* errors='ignore': the undecodable bytes are dropped and nothing is raised
TextIgnore(b) ==
    LET txt[i \in 1..(Len(b) + 1)] ==
            LET j == AsciiEnd(b, i) IN
            IF j > Len(b) THEN SubSeq(b, i, Len(b))
            ELSE IF CharLen(b, j) = 0 THEN SubSeq(b, i, j - 1) \o txt[j + 1]
            ELSE SubSeq(b, i, j - 1) \o <<CodePoint(b, j, CharLen(b, j))>>
                   \o txt[j + CharLen(b, j)]
    IN  txt[1]

DecodeIgnore(b) == [ok |-> TRUE, text |-> TextIgnore(b)]

Decode(b) ==
    IF WellFormed(b) THEN [ok |-> TRUE, text |-> Text(b)]
    ELSE [ok |-> FALSE, text |-> <<>>]

(***************************************************************************)
(* The character classes of the pattern on a str: \d is the decimal        *)
(* digits, \w the alphanumerics and '_'.  Below U+0100 these are the sets  *)
(* here; the responses of this model decode to code points below U+0100.   *)
(***************************************************************************)
IsDigit(c) == c \in 48..57

IsWord(c) ==
    \/ c \in 48..57
    \/ c \in 65..90
    \/ c = 95
    \/ c \in 97..122
    \/ c \in {170, 178, 179, 181, 185, 186, 188, 189, 190}
    \/ c \in 192..214
    \/ c \in 216..246
    \/ c \in 248..255

IsSep(c) == c = DOT \/ c = DASH

(***************************************************************************)
(* re.finditer(r'>(\d+((\.|-)(\d|\w)+)+)', body).  Both quantified parts   *)
(* are greedy and what may follow each excludes what it repeats, so the    *)
(* match at a '>' is the longest run  digits (sep word+)+  after it.       *)
(* DigitsEnd(s, i) and WordEnd(s, i) are the last index of the run of      *)
(* digits, of word characters, that starts at i (i - 1 without one).       *)
(***************************************************************************)
DigitsEnd(s, i) ==
    LET run[j \in 1..(Len(s) + 1)] ==
            IF j <= Len(s) /\ IsDigit(s[j]) THEN run[j + 1] ELSE j - 1
    IN  IF i > Len(s) THEN i - 1 ELSE run[i]

WordEnd(s, i) ==
    LET run[j \in 1..(Len(s) + 1)] ==
            IF j <= Len(s) /\ IsWord(s[j]) THEN run[j + 1] ELSE j - 1
    IN  IF i > Len(s) THEN i - 1 ELSE run[i]

\* the last index of the groups ((\.|-)(\d|\w)+)* that follow index e
GroupsEnd(s, e) ==
    LET grp[k \in 0..Len(s)] ==
            IF k + 1 <= Len(s) /\ IsSep(s[k + 1]) /\ WordEnd(s, k + 2) >= k + 2
            THEN grp[WordEnd(s, k + 2)]
            ELSE k
    IN  grp[e]

\* a pattern without the leading '>': the match may start anywhere
MatchEndNoAnchor(s, i) ==
    LET d == DigitsEnd(s, i + 1)
        e == GroupsEnd(s, d)
    IN  IF d >= i + 1 /\ e > d THEN e ELSE 0

\* the end of the match whose '>' is at index i, 0 when there is no match
MatchEnd(s, i) ==
    IF s[i] # GT THEN 0
    ELSE LET d == DigitsEnd(s, i + 1)
             e == GroupsEnd(s, d)
         IN  IF d >= i + 1 /\ e > d THEN e ELSE 0

\* the leftmost index from p on at which the pattern matches, 0 without one
FirstMatch(s, p) ==
    IF \A i \in p..Len(s) : MatchEnd(s, i) = 0 THEN 0
    ELSE CHOOSE i \in p..Len(s) :
            MatchEnd(s, i) # 0 /\ \A k \in p..(i - 1) : MatchEnd(s, k) = 0

\* group(1) of the non-overlapping matches: the leftmost match from p on,
\* then the scan resumes after it
ScanFrom(s, p) ==
    LET scan[q \in 1..(Len(s) + 1)] ==
            LET i == FirstMatch(s, q) IN
            IF i = 0 THEN <<>>
            ELSE <<SubSeq(s, i + 1, MatchEnd(s, i))>> \o scan[MatchEnd(s, i) + 1]
    IN  scan[p]

FindAll(s) == ScanFrom(s, 1)

(***************************************************************************)
(* str comparison and list.sort(reverse=True).                             *)
(***************************************************************************)
\* the value of the leading decimal digits of s
RECURSIVE LeadingNumber(_, _)
LeadingNumber(s, acc) ==
    IF s # <<>> /\ IsDigit(Head(s))
    THEN LeadingNumber(Tail(s), acc * 10 + (Head(s) - 48))
    ELSE acc

RECURSIVE DropDigits(_)
DropDigits(s) ==
    IF s # <<>> /\ IsDigit(Head(s)) THEN DropDigits(Tail(s)) ELSE s

\* a version-aware comparison: runs of digits compare by value
RECURSIVE VersionLess(_, _)
VersionLess(a, b) ==
    IF b = <<>> THEN FALSE
    ELSE IF a = <<>> THEN TRUE
    ELSE IF IsDigit(Head(a)) /\ IsDigit(Head(b)) THEN
        IF LeadingNumber(a, 0) # LeadingNumber(b, 0)
        THEN LeadingNumber(a, 0) < LeadingNumber(b, 0)
        ELSE VersionLess(DropDigits(a), DropDigits(b))
    ELSE IF Head(a) # Head(b) THEN Head(a) < Head(b)
    ELSE VersionLess(Tail(a), Tail(b))

\* the two end cases exchanged: a proper prefix is the greater
RECURSIVE PrefixGreaterLess(_, _)
PrefixGreaterLess(a, b) ==
    IF a = <<>> THEN FALSE
    ELSE IF b = <<>> THEN TRUE
    ELSE IF Head(a) # Head(b) THEN Head(a) < Head(b)
    ELSE PrefixGreaterLess(Tail(a), Tail(b))

\* a < b for two str: by code point, a proper prefix being the smaller
RECURSIVE StrLess(_, _)
StrLess(a, b) ==
    IF b = <<>> THEN FALSE
    ELSE IF a = <<>> THEN TRUE
    ELSE IF Head(a) # Head(b) THEN Head(a) < Head(b)
    ELSE StrLess(Tail(a), Tail(b))

\* x placed into the descending list l, after the elements equal to it
RECURSIVE InsertDesc(_, _)
InsertDesc(x, l) ==
    IF l = <<>> THEN <<x>>
    ELSE IF StrLess(Head(l), x) THEN <<x>> \o l
    ELSE <<Head(l)>> \o InsertDesc(x, Tail(l))

RECURSIVE SortDescFrom(_, _)
SortDescFrom(l, acc) ==
    IF l = <<>> THEN acc ELSE SortDescFrom(Tail(l), InsertDesc(Head(l), acc))

SortDesc(l) == SortDescFrom(l, <<>>)

(***************************************************************************)
(* The inputs.  The caller's url, and what the network answers: the        *)
(* connection fails, the read fails, or a body of bytes arrives.  A body   *)
(* is either a short concatenation of fragments (anchors, digits,          *)
(* separators, a two-byte character, a truncated one) or a listing in the  *)
(* format of the sample in the source: a header and one row per directory. *)
(***************************************************************************)
\* 'https://archive.apache.org/dist/maven/maven-3/'
DefaultUrl ==
    <<104, 116, 116, 112, 115, 58, 47, 47, 97, 114, 99, 104, 105, 118, 101, 46,
      97, 112, 97, 99, 104, 101, 46, 111, 114, 103, 47, 100, 105, 115, 116, 47,
      109, 97, 118, 101, 110, 47, 109, 97, 118, 101, 110, 45, 51, 47>>

\* '', 'h', 'h/', '/h//', 'h/m'
Urls ==
    {<<>>, <<104>>, <<104, 47>>, <<47, 104, 47, 47>>, <<104, 47, 109>>}

RECURSIVE Flatten(_)
Flatten(ss) == IF ss = <<>> THEN <<>> ELSE Head(ss) \o Flatten(Tail(ss))

\* '>', '3', '.9', '-' and the two bytes of U+00E9, '/', the lead byte 0xC3 alone, 'a'
Frags ==
    {<<62>>, <<51>>, <<46, 57>>, <<45, 195, 169>>, <<47>>, <<195>>, <<97>>}

RawBodies ==
    {Flatten(ps) : ps \in UNION {[1..k -> Frags] : k \in 0..MaxParts}}

\* '3.8.5', '3.10.0', '3.9.0', '3.5.0', '3.5.0-alpha-1', '3.5.0-beta-1'
Names ==
    {<<51, 46, 56, 46, 53>>,
     <<51, 46, 49, 48, 46, 48>>,
     <<51, 46, 57, 46, 48>>,
     <<51, 46, 53, 46, 48>>,
     <<51, 46, 53, 46, 48, 45, 97, 108, 112, 104, 97, 45, 49>>,
     <<51, 46, 53, 46, 48, 45, 98, 101, 116, 97, 45, 49>>}

\* '<pre><a href="?C=N;O=D">Name</a><hr>'
Header ==
    <<60, 112, 114, 101, 62, 60, 97, 32, 104, 114, 101, 102, 61, 34, 63, 67, 61,
      78, 59, 79, 61, 68, 34, 62, 78, 97, 109, 101, 60, 47, 97, 62, 60, 104, 114, 62>>

\* '<hr></pre>'
Footer == <<60, 104, 114, 62, 60, 47, 112, 114, 101, 62>>

\* '<a href="' n '/">' n '/</a>  2017-02-28 22:25  -\n'
Row(n) ==
    <<60, 97, 32, 104, 114, 101, 102, 61, 34>> \o n \o <<47, 34, 62>> \o n
      \o <<47, 60, 47, 97, 62, 32, 32, 50, 48, 49, 55, 45, 48, 50, 45, 50, 56,
           32, 50, 50, 58, 50, 53, 32, 32, 45, 10>>

ListingBodies ==
    {Header \o Flatten([i \in 1..Len(ns) |-> Row(ns[i])]) \o Footer :
        ns \in UNION {[1..k -> Names] : k \in 0..MaxRows}}

Responses ==
    {[kind |-> "refused", bytes |-> <<>>], [kind |-> "reset", bytes |-> <<>>]}
      \cup {[kind |-> "ok", bytes |-> b] : b \in RawBodies \cup ListingBodies}

NoResponse == [kind |-> "none", bytes |-> <<>>]

(***************************************************************************)
(* The f-strings of bin_list and the str() of the list main prints.        *)
(***************************************************************************)
\* f'{url}/{latest_ver}/binaries'
FormatListUrl(u, v) ==
    u \o <<SLASH>> \o v \o <<47, 98, 105, 110, 97, 114, 105, 101, 115>>

\* f'{list_url}/apache-maven-{latest_ver}-bin.tar.gz'
FormatTarGz(l, v) ==
    l \o <<47, 97, 112, 97, 99, 104, 101, 45, 109, 97, 118, 101, 110, 45>> \o v
      \o <<45, 98, 105, 110, 46, 116, 97, 114, 46, 103, 122>>

\* f'{list_url}/apache-maven-{latest_ver}-bin.zip'
FormatZip(l, v) ==
    l \o <<47, 97, 112, 97, 99, 104, 101, 45, 109, 97, 118, 101, 110, 45>> \o v
      \o <<45, 98, 105, 110, 46, 122, 105, 112>>

\* the list with the zip first
ReturnValueZipFirst(l, v) == <<FormatZip(l, v), FormatTarGz(l, v)>>

ReturnValue(l, v) == <<FormatTarGz(l, v), FormatZip(l, v)>>

\* str() of a list of str without quotes or escapes: "['a', 'b']"
RECURSIVE ReprItems(_)
ReprItems(l) ==
    IF l = <<>> THEN <<>>
    ELSE <<39>> \o Head(l) \o <<39>>
           \o (IF Len(l) > 1 THEN <<44, 32>> ELSE <<>>) \o ReprItems(Tail(l))

StrOfList(l) == <<91>> \o ReprItems(l) \o <<93>>

(***************************************************************************)
(* The state: who called, the line about to run, bin_list's argument and   *)
(* locals, the requests issued (the address of each urlopen call), the     *)
(* response, what bin_list returned or raised, the source lines that have  *)
(* run, and the process's output and exit code (-1 while it runs).         *)
(***************************************************************************)
VARIABLES caller, pc, arg, url, requests, resp, body, vers, latest_ver,
          list_url, result, error, executed, stdout, stderr, exit_code

vars == <<caller, pc, arg, url, requests, resp, body, vers, latest_ver,
          list_url, result, error, executed, stdout, stderr, exit_code>>

Init ==
    /\ caller = "none"
    /\ pc = "idle"
    /\ arg = <<>>
    /\ url = <<>>
    /\ requests = <<>>
    /\ resp = NoResponse
    /\ body = <<>>
    /\ vers = <<>>
    /\ latest_ver = <<>>
    /\ list_url = <<>>
    /\ result = <<>>
    /\ error = "none"
    /\ executed = {}
    /\ stdout = <<>>
    /\ stderr = <<>>
    /\ exit_code = -1

\* line 57: the program calls bin_list() with the default url
CallMain ==
    /\ pc = "idle"
    /\ caller' = "main"
    /\ arg' = DefaultUrl
    /\ url' = DefaultUrl
    /\ pc' = "L45"
    /\ executed' = executed \cup {57}
    /\ UNCHANGED <<requests, resp, body, vers, latest_ver, list_url, result,
                   error, stdout, stderr, exit_code>>

\* line 44: an importing module calls bin_list(u)
CallLib ==
    /\ pc = "idle"
    /\ \E u \in Urls :
          /\ arg' = u
          /\ url' = u
    /\ caller' = "lib"
    /\ pc' = "L45"
    /\ UNCHANGED <<requests, resp, body, vers, latest_ver, list_url, result,
                   error, executed, stdout, stderr, exit_code>>

\* line 45: url = url.strip('/')
StripUrl ==
    /\ pc = "L45"
    /\ url' = Strip(url)
    /\ pc' = "L46"
    /\ executed' = executed \cup {45}
    /\ UNCHANGED <<caller, arg, requests, resp, body, vers, latest_ver,
                   list_url, result, error, stdout, stderr, exit_code>>

\* a urlopen that tries again when the connection fails
UrlopenRetry ==
    /\ pc = "L46"
    /\ \E r \in Responses :
          /\ resp' = r
          /\ pc' = IF r.kind = "refused" /\ Len(requests) < 2 THEN "L46" ELSE "L47"
    /\ requests' = Append(requests, url)
    /\ executed' = executed \cup {46}
    /\ UNCHANGED <<caller, arg, url, body, vers, latest_ver, list_url, result,
                   error, stdout, stderr, exit_code>>

\* a urlopen that tries again, without end, while the connection fails
UrlopenRetryForever ==
    /\ pc = "L46"
    /\ \E r \in Responses :
          /\ resp' = r
          /\ pc' = IF r.kind = "refused" THEN "L46" ELSE "L47"
    /\ requests' = IF Len(requests) < 2 THEN Append(requests, url) ELSE <<url>>
    /\ executed' = executed \cup {46}
    /\ UNCHANGED <<caller, arg, url, body, vers, latest_ver, list_url, result,
                   error, stdout, stderr, exit_code>>

\* line 46: urlopen(url) issues the request; it raises when the request fails
Urlopen ==
    /\ pc = "L46"
    /\ \E r \in Responses :
          /\ resp' = r
          /\ IF r.kind = "refused"
             THEN error' = "URLError" /\ pc' = "raised"
             ELSE error' = error /\ pc' = "L47"
    /\ requests' = Append(requests, url)
    /\ executed' = executed \cup {46}
    /\ UNCHANGED <<caller, arg, url, body, vers, latest_ver, list_url, result,
                   stdout, stderr, exit_code>>

\* a read that decodes with errors='ignore'
ReadDecodeIgnore ==
    /\ pc = "L47"
    /\ IF resp.kind = "reset"
       THEN error' = "IncompleteRead" /\ pc' = "raised" /\ body' = body
       ELSE error' = error /\ pc' = "L48" /\ body' = DecodeIgnore(resp.bytes).text
    /\ executed' = executed \cup {47}
    /\ UNCHANGED <<caller, arg, url, requests, resp, vers, latest_ver, list_url,
                   result, stdout, stderr, exit_code>>

\* line 47: resp.read().decode('utf-8'); the read or the decoding may raise
ReadDecode ==
    /\ pc = "L47"
    /\ IF resp.kind = "reset"
       THEN error' = "IncompleteRead" /\ pc' = "raised" /\ body' = body
       ELSE LET d == Decode(resp.bytes) IN
            IF d.ok
            THEN error' = error /\ pc' = "L48" /\ body' = d.text
            ELSE error' = "UnicodeDecodeError" /\ pc' = "raised" /\ body' = body
    /\ executed' = executed \cup {47}
    /\ UNCHANGED <<caller, arg, url, requests, resp, vers, latest_ver, list_url,
                   result, stdout, stderr, exit_code>>

\* line 48: vers = [m.group(1) for m in re.finditer(..., body)]
Finditer ==
    /\ pc = "L48"
    /\ vers' = FindAll(body)
    /\ pc' = "L49"
    /\ executed' = executed \cup {48}
    /\ UNCHANGED <<caller, arg, url, requests, resp, body, latest_ver, list_url,
                   result, error, stdout, stderr, exit_code>>

\* line 49: vers.sort(reverse=True)
Sort ==
    /\ pc = "L49"
    /\ vers' = SortDesc(vers)
    /\ pc' = "L51"
    /\ executed' = executed \cup {49}
    /\ UNCHANGED <<caller, arg, url, requests, resp, body, latest_ver, list_url,
                   result, error, stdout, stderr, exit_code>>

\* an index guarded by a default: an empty list yields an empty version
IndexOrEmpty ==
    /\ pc = "L51"
    /\ latest_ver' = IF vers = <<>> THEN <<>> ELSE vers[1]
    /\ pc' = "L52"
    /\ executed' = executed \cup {51}
    /\ UNCHANGED <<caller, arg, url, requests, resp, body, vers, list_url,
                   result, error, stdout, stderr, exit_code>>

\* line 51: latest_ver = vers[0], an IndexError on the empty list
Index ==
    /\ pc = "L51"
    /\ IF vers = <<>>
       THEN error' = "IndexError" /\ pc' = "raised" /\ latest_ver' = latest_ver
       ELSE error' = error /\ pc' = "L52" /\ latest_ver' = vers[1]
    /\ executed' = executed \cup {51}
    /\ UNCHANGED <<caller, arg, url, requests, resp, body, vers, list_url,
                   result, stdout, stderr, exit_code>>

\* line 52: list_url = f'{url}/{latest_ver}/binaries'
ListUrl ==
    /\ pc = "L52"
    /\ list_url' = FormatListUrl(url, latest_ver)
    /\ pc' = "L53"
    /\ executed' = executed \cup {52}
    /\ UNCHANGED <<caller, arg, url, requests, resp, body, vers, latest_ver,
                   result, error, stdout, stderr, exit_code>>

\* line 53: return [tar.gz, zip]
Return ==
    /\ pc = "L53"
    /\ result' = ReturnValue(list_url, latest_ver)
    /\ pc' = "returned"
    /\ executed' = executed \cup {53}
    /\ UNCHANGED <<caller, arg, url, requests, resp, body, vers, latest_ver,
                   list_url, error, stdout, stderr, exit_code>>

\* a program that reports a failure on stdout and exits 0 all the same
ExitQuietly ==
    /\ caller = "main"
    /\ \/ /\ pc = "returned"
          /\ stdout' = Append(stdout, StrOfList(result))
       \/ /\ pc = "raised"
          /\ stdout' = Append(stdout, StrOfList(result))
    /\ exit_code' = 0
    /\ pc' = "exit"
    /\ executed' = executed \cup {58}
    /\ UNCHANGED <<caller, arg, url, requests, resp, body, vers, latest_ver,
                   list_url, result, error, stderr>>

\* line 58: print(f'{url}'), and the interpreter exits with 0
PrintResult ==
    /\ caller = "main"
    /\ pc = "returned"
    /\ stdout' = Append(stdout, StrOfList(result))
    /\ exit_code' = 0
    /\ pc' = "exit"
    /\ executed' = executed \cup {58}
    /\ UNCHANGED <<caller, arg, url, requests, resp, body, vers, latest_ver,
                   list_url, result, error, stderr>>

\* line 57: the error is not caught; the interpreter writes the traceback
\* to stderr and exits with 1
Uncaught ==
    /\ caller = "main"
    /\ pc = "raised"
    /\ stderr' = Append(stderr, error)
    /\ exit_code' = 1
    /\ pc' = "exit"
    /\ UNCHANGED <<caller, arg, url, requests, resp, body, vers, latest_ver,
                   list_url, result, error, executed, stdout>>

Next ==
    \/ CallMain
    \/ CallLib
    \/ StripUrl
    \/ Urlopen
    \/ ReadDecode
    \/ Finditer
    \/ Sort
    \/ Index
    \/ ListUrl
    \/ Return
    \/ PrintResult
    \/ Uncaught

Spec == Init /\ [][Next]_vars

\* every statement that can run does run: a single thread, and a network
\* read that delivers the body or fails
FairSpec == Spec /\ WF_vars(Next)

(***************************************************************************)
(* bin_list as a function of its argument and of what the network answers: *)
(* the address requested, the error raised and the list returned.          *)
(***************************************************************************)
Outcome(s, e, l) == [requested |-> <<s>>, error |-> e, result |-> l]

BinList(u, r) ==
    LET s == Strip(u) IN
    IF r.kind = "refused" THEN Outcome(s, "URLError", <<>>)
    ELSE IF r.kind = "reset" THEN Outcome(s, "IncompleteRead", <<>>)
    ELSE LET d == Decode(r.bytes) IN
         IF ~d.ok THEN Outcome(s, "UnicodeDecodeError", <<>>)
         ELSE LET vs == SortDesc(FindAll(d.text)) IN
              IF vs = <<>> THEN Outcome(s, "IndexError", <<>>)
              ELSE Outcome(s, "none", ReturnValue(FormatListUrl(s, vs[1]), vs[1]))

(***************************************************************************)
(* Vocabulary of the properties.                                           *)
(***************************************************************************)
\* bin_list has returned or raised (and the program may have exited since)
Terminated == pc \in {"returned", "raised", "exit"}

\* line n of the source has run
Ran(n) == n \in executed

ToSet(l) == {l[i] : i \in DOMAIN l}

\* the tokens the pattern extracts from the decoded body
Tokens == ToSet(FindAll(body))

\* a > b, character by character: at the first index where they differ a
\* holds the greater code point, or b has ended there
StrictlyGreater(a, b) ==
    \E k \in 1..Len(a) :
        /\ \A j \in 1..(k - 1) : j <= Len(b) /\ a[j] = b[j]
        /\ (k > Len(b) \/ a[k] > b[k])

IsProperPrefix(a, b) == Len(a) < Len(b) /\ SubSeq(b, 1, Len(a)) = a

V3_10_0 == <<51, 46, 49, 48, 46, 48>>
V3_9_0 == <<51, 46, 57, 46, 48>>
V3_5_0 == <<51, 46, 53, 46, 48>>
V3_5_0_beta_1 == <<51, 46, 53, 46, 48, 45, 98, 101, 116, 97, 45, 49>>

\* C1: once bin_list has selected a version (line 51 ran on a non-empty
\* list), that version is one of the extracted tokens, no extracted token is
\* strictly greater than it character by character, and a non-empty token
\* list always gets a selection; for the tokens {"3.10.0", "3.9.0"} the
\* selection is "3.9.0".
C1_LatestIsLexicographicMax ==
    (Ran(51) /\ Tokens # {}) =>
        /\ error = "none"
        /\ latest_ver \in Tokens
        /\ \A t \in Tokens : ~StrictlyGreater(t, latest_ver)
        /\ (Tokens = {V3_10_0, V3_9_0} => latest_ver = V3_9_0)

C1_Witness ==
    /\ pc = "returned"
    /\ Tokens = {V3_10_0, V3_9_0}
    /\ latest_ver = V3_9_0

\* C2: a successful call returns exactly two URLs, the tar.gz first and the
\* zip second, each {base}/{version}/binaries/apache-maven-{version}-bin.
\* and its suffix, with base the stripped argument and version the selected
\* token; the two differ in nothing but the suffix after "-bin.".
C2_TwoUrlsTarGzThenZip ==
    (Terminated /\ error = "none") =>
        LET base == Strip(arg)
            stem == base \o <<47>> \o latest_ver
                      \o <<47, 98, 105, 110, 97, 114, 105, 101, 115>>
                      \o <<47, 97, 112, 97, 99, 104, 101, 45, 109, 97, 118, 101, 110, 45>>
                      \o latest_ver \o <<45, 98, 105, 110, 46>>
        IN  /\ latest_ver \in Tokens
            /\ result = <<stem \o <<116, 97, 114, 46, 103, 122>>,
                          stem \o <<122, 105, 112>>>>

C2_Witness ==
    /\ pc = "returned"
    /\ arg = <<47, 104, 47, 47>>
    /\ latest_ver = V3_9_0
    /\ Len(result) = 2

\* C3: a call with the argument u ends as the call with u + "/" does under
\* the same answer of the network: the same address requested, the same
\* error or the same two URLs; stripping the stripped url changes nothing,
\* and in a returned URL the base and the version are separated by a single
\* slash.
C3_TrailingSlashIrrelevant ==
    /\ Ran(45) => url = Strip(url) /\ url = Strip(arg \o <<47>>)
    /\ Terminated =>
          /\ Outcome(url, error, result) = BinList(arg \o <<47>>, resp)
          /\ requests = <<Strip(arg \o <<47>>)>>
          /\ \A k \in DOMAIN result :
                /\ SubSeq(result[k], 1, Len(url) + 1) = url \o <<47>>
                /\ url # <<>> => result[k][Len(url)] # 47
                /\ result[k][Len(url) + 2] # 47

C3_Witness ==
    /\ pc = "returned"
    /\ arg = <<104, 47>>
    /\ requests = <<<<104>>>>
    /\ Len(result) = 2

\* C4: when the decoded body holds no match of the pattern, bin_list ends
\* by raising the error of the empty result (the IndexError of vers[0], the
\* code's NoVersionsFoundError) and returns no URLs; URLs are only ever
\* built from a version that is an extracted, non-empty token.
C4_NoTokensRaises ==
    /\ (Ran(48) /\ Tokens = {}) =>
          /\ result = <<>>
          /\ pc \notin {"L52", "L53", "returned"}
          /\ Terminated => error = "IndexError"
          /\ Ran(51) => Terminated
    /\ (Ran(52) \/ result # <<>>) => latest_ver # <<>> /\ latest_ver \in Tokens
    /\ error = "IndexError" => Ran(48) /\ Tokens = {}

C4_Witness ==
    /\ pc = "raised"
    /\ error = "IndexError"
    /\ Len(body) > 3
    /\ result = <<>>

C6_UndecodableRaises ==
    /\ (Ran(47) /\ resp.kind = "ok") =>
          IF Decode(resp.bytes).ok
          THEN error # "UnicodeDecodeError"
          ELSE /\ error = "UnicodeDecodeError"
               /\ pc \in {"raised", "exit"}
               /\ ~Ran(48)
               /\ vers = <<>>
               /\ result = <<>>
    /\ error = "UnicodeDecodeError" => Ran(47) /\ resp.kind = "ok"

C6_Witness ==
    /\ pc = "raised"
    /\ error = "UnicodeDecodeError"
    /\ Len(resp.bytes) > 1
    /\ ~Ran(48)

\* C7: the program writes to stdout only when it exits, and then: it exits
\* with 0 exactly when bin_list succeeded, having written the str() of the
\* two URLs once; after each of the failures stdout is empty, the exit code
\* is not 0 and the error is on stderr.
C7_ExitCodeAndStdout ==
    caller = "main" =>
        /\ pc # "exit" => stdout = <<>> /\ exit_code = -1
        /\ pc = "exit" =>
              /\ exit_code = 0 <=> error = "none"
              /\ error = "none" =>
                    /\ Len(result) = 2
                    /\ stdout = << <<91, 39>> \o result[1] \o <<39, 44, 32, 39>>
                                     \o result[2] \o <<39, 93>> >>
                    /\ stderr = <<>>
              /\ error # "none" =>
                    /\ stdout = <<>>
                    /\ exit_code > 0
                    /\ stderr = <<error>>
                    /\ result = <<>>

C7_Witness ==
    /\ caller = "main"
    /\ pc = "exit"
    /\ exit_code = 0
    /\ Len(stdout) = 1
    /\ latest_ver = V3_5_0_beta_1

\* C8: every invocation ends, and ends in exactly one of two ways: two URLs
\* and no error, or an error and no URLs; before it ends there are no URLs.
C8_TerminatesAllOrNothing ==
    /\ (pc = "L45") ~> Terminated
    /\ [](Terminated =>
            \/ Len(result) = 2 /\ error = "none"
            \/ result = <<>> /\ error # "none")
    /\ [](~Terminated => result = <<>> /\ error = "none")

C8_Witness ==
    /\ pc = "returned"
    /\ Len(result) = 2
    /\ error = "none"
    /\ caller = "lib"

\* the indices of the '>' that are followed by digits, a separator and a
\* word character
Anchors ==
    {i \in 1..Len(body) :
        /\ body[i] = GT
        /\ \E d \in (i + 1)..(Len(body) - 2) :
              /\ \A j \in (i + 1)..d : IsDigit(body[j])
              /\ body[d + 1] \in {DOT, DASH}
              /\ IsWord(body[d + 2])}

\* C9: every collected token stands in the body right after a '>', begins
\* with a digit, holds a '.' or '-' followed by a word character, and holds
\* no '/' nor anything but word characters and separators; there are no
\* more tokens than '>' followed by digits and a separator group.
C9_TokensAreAnchored ==
    Ran(48) =>
        /\ \A n \in DOMAIN vers :
              LET t == vers[n] IN
              /\ t # <<>>
              /\ IsDigit(t[1])
              /\ \E j \in 2..(Len(t) - 1) : t[j] \in {DOT, DASH} /\ IsWord(t[j + 1])
              /\ \A j \in DOMAIN t : t[j] # SLASH /\ (IsWord(t[j]) \/ t[j] \in {DOT, DASH})
              /\ \E i \in Anchors :
                    /\ i + Len(t) <= Len(body)
                    /\ SubSeq(body, i + 1, i + Len(t)) = t
        /\ Len(vers) <= Cardinality(Anchors)

C9_Witness ==
    /\ pc = "L49"
    /\ vers = <<V3_9_0>>
    /\ Cardinality({i \in 1..Len(body) : body[i] = GT}) > 3
    /\ Cardinality({i \in 1..Len(body) : body[i] = SLASH}) > 3

\* C10: a token that is a proper prefix of another extracted token is never
\* the selected version; when the tokens that do not extend it are none
\* greater than it, the selected version is one of its extensions.
C10_PrefixNeverSelected ==
    (Ran(51) /\ error = "none") =>
        \A v \in Tokens :
            (\E t \in Tokens : IsProperPrefix(v, t)) =>
                /\ latest_ver # v
                /\ (\A t \in Tokens : ~IsProperPrefix(v, t) => ~StrictlyGreater(t, v))
                      => IsProperPrefix(v, latest_ver)

C10_Witness ==
    /\ pc = "returned"
    /\ V3_5_0 \in Tokens
    /\ latest_ver = V3_5_0_beta_1

============================================================================
